---- MODULE Spec2Model ----
(***************************************************************************)
(* Employee Management API (src/main.py): four JSON collections on disk    *)
(* (districts, departments, employees, attendance) and the HTTP handlers   *)
(* that load, transform and save them.  Every handler is one atomic        *)
(* action here: the handlers contain no await between load and save, so a  *)
(* single event loop runs each of them to completion.                      *)
(*                                                                         *)
(* Records carry the fields the handlers read or write.  The free-text     *)
(* fields no handler ever looks at (description, manager, photo, position, *)
(* email) and the createdAt timestamp are left out of the records.         *)
(* A time of day "HH:MM" is the pair <<HH, MM>>; None is <<>>.             *)
(* An employeeCount is an integer, or NotANumber for a JSON value that is  *)
(* not a number.                                                           *)
(*                                                                         *)
(* call holds one call of calculate_work_hours on its own: its two         *)
(* arguments and, once it has returned, its result.                        *)
(*                                                                         *)
(* requests holds the POST /districts requests the server has accepted and *)
(* not yet answered, each with its position in create_district: SpecLoop   *)
(* splits that handler at its load and its save to show how the event loop *)
(* schedules requests that are open at the same time.                      *)
(*                                                                         *)
(* process says whether the server process is running or has stopped, and  *)
(* which department the create_employee it last stopped in was counting    *)
(* the new employee for: SpecCrash stops the process between the two saves *)
(* of create_employee and starts it again.                                 *)
(***************************************************************************)
EXTENDS Integers, Sequences, FiniteSets, TLC

VARIABLES districts, departments, employees, attendance_records,
          nextId, response, steps, call, requests, process

vars == <<districts, departments, employees, attendance_records,
          nextId, response, steps, call, requests, process>>

files == <<districts, departments, employees, attendance_records>>

----------------------------------------------------------------------------
(* Bounds *)

\* number of requests served in one behaviour of Spec
MaxSteps == 3

\* number of requests served in one behaviour of SpecStaff
MaxStaffSteps == 5

\* number of requests open at the same time in one behaviour of SpecLoop
MaxRequests == 3

\* number of requests served in one behaviour of SpecRound
MaxRoundSteps == 3

\* number of requests received in one behaviour of SpecCrash
MaxCrashSteps == 3

----------------------------------------------------------------------------
(* Values *)

None == <<>>

\* an employeeCount that is not a number: the JSON null that
\* Department.employeeCount (Optional[int]) accepts, or the null or string
\* that the body of a PUT may carry.  It is written as an integer that no
\* count of the model reaches, so that it can stand where counts stand.
NotANumber == -1000000

\* datetime.now().strftime('%Y-%m-%d') at startup and one day before; the
\* clock stays within the same day while the requests are served
Today == "2024-06-02"
Yesterday == "2024-06-01"

NoLocation == "null"
Toshkent == "Toshkent"
Samarqand == "Samarqand"

----------------------------------------------------------------------------
(* Utility functions *)

\* DictUpdate with the stored value winning over the patch's
DictUpdateKeepOld(d, patch) ==
  [k \in (DOMAIN d) \cup (DOMAIN patch) |->
     IF k \in DOMAIN d THEN d[k] ELSE patch[k]]

\* dict.update(patch): the patch's value for every key of the patch, the
\* old value for every other key
DictUpdate(d, patch) ==
  [k \in (DOMAIN d) \cup (DOMAIN patch) |->
     IF k \in DOMAIN patch THEN patch[k] ELSE d[k]]

\* the first of the indices in S, 0 when there is none: what next(..., None)
\* and a loop that ends in break pick among the matching elements
First(S) == IF S = {} THEN 0 ELSE CHOOSE i \in S : \A j \in S : i <= j

\* the index of the first element of s whose id is id, 0 when there is none
IndexOf(s, id) == First({ i \in 1..Len(s) : s[i].id = id })

\* s with s[i] replaced by r
SetAt(s, i, r) == [s EXCEPT ![i] = r]

\* str(uuid.uuid4()): the n-th identifier generated since startup; no two
\* calls return the same string and none returns a string a client sent
generate_id(n) == "uuid-" \o ToString(n)

Max(a, b) == IF a > b THEN a ELSE b

----------------------------------------------------------------------------
(* Seed data written by initialize_sample_data when the files are absent *)

sample_districts == <<
  [id |-> "1", name |-> "Toshkent tumani", code |-> "TSH001"],
  [id |-> "2", name |-> "Samarqand tumani", code |-> "SMQ001"] >>

sample_departments == <<
  [id |-> "1", name |-> "IT bo'limi", departmentNumber |-> "IT-001",
   districtId |-> "1", districtName |-> "Toshkent tumani", employeeCount |-> 3],
  [id |-> "2", name |-> "Moliya bo'limi", departmentNumber |-> "FIN-001",
   districtId |-> "1", districtName |-> "Toshkent tumani", employeeCount |-> 2],
  [id |-> "3", name |-> "Marketing bo'limi", departmentNumber |-> "MKT-001",
   districtId |-> "2", districtName |-> "Samarqand tumani", employeeCount |-> 2] >>

SampleEmployee(id, name, phone, deptId, deptName, deptNumber, districtName) ==
  [id |-> id, name |-> name, phone |-> phone, departmentId |-> deptId,
   departmentName |-> deptName, departmentNumber |-> deptNumber,
   districtName |-> districtName, status |-> "active"]

sample_employees == <<
  SampleEmployee("1", "Karimov Sardor", "+998901234567", "1", "IT bo'limi",
                 "IT-001", "Toshkent tumani"),
  SampleEmployee("2", "Abdullayeva Nilufar", "+998901234568", "2",
                 "Moliya bo'limi", "FIN-001", "Toshkent tumani"),
  SampleEmployee("3", "Nazarova Dilshoda", "+998901234570", "3",
                 "Marketing bo'limi", "MKT-001", "Samarqand tumani"),
  SampleEmployee("4", "Toshmatov Oybek", "+998901234569", "1", "IT bo'limi",
                 "IT-001", "Toshkent tumani"),
  SampleEmployee("5", "Aliyev Vali", "+998901234571", "2", "Moliya bo'limi",
                 "FIN-001", "Toshkent tumani"),
  SampleEmployee("6", "Rahimova Madina", "+998901234572", "3",
                 "Marketing bo'limi", "MKT-001", "Samarqand tumani"),
  SampleEmployee("7", "Ergashev Jasur", "+998901234573", "1", "IT bo'limi",
                 "IT-001", "Toshkent tumani") >>

SampleAttendance(id, name, empId, dept, date, cin, cout, status, hours, loc) ==
  [id |-> id, employeeName |-> name, employeeId |-> empId,
   department |-> dept, date |-> date, checkIn |-> cin,
   checkOut |-> cout, status |-> status, workHours |-> hours,
   location |-> loc]

sample_attendance == <<
  SampleAttendance("1", "Karimov Sardor", "1", "IT bo'limi", Today,
                   <<9, 0>>, <<18, 0>>, "present", "8:00", Toshkent),
  SampleAttendance("2", "Abdullayeva Nilufar", "2", "Moliya bo'limi", Today,
                   <<9, 15>>, <<18, 0>>, "late", "7:45", Toshkent),
  SampleAttendance("3", "Nazarova Dilshoda", "3", "Marketing bo'limi", Today,
                   <<8, 55>>, <<17, 30>>, "early-leave", "7:35", Samarqand),
  SampleAttendance("4", "Toshmatov Oybek", "4", "IT bo'limi", Today,
                   None, None, "absent", "0:00", NoLocation),
  SampleAttendance("5", "Aliyev Vali", "5", "Moliya bo'limi", Today,
                   <<9, 0>>, <<18, 0>>, "present", "8:00", Toshkent),
  SampleAttendance("6", "Karimov Sardor", "1", "IT bo'limi", Yesterday,
                   <<8, 55>>, <<18, 10>>, "present", "8:15", Toshkent),
  SampleAttendance("7", "Abdullayeva Nilufar", "2", "Moliya bo'limi", Yesterday,
                   <<9, 0>>, <<18, 0>>, "present", "8:00", Toshkent) >>

\* initialize_sample_data writing the sample whether or not the file exists
initialize_sample_data_always(exists, stored, sample) == sample

\* if not os.path.exists(FILE): save_json_data(FILE, sample): what the file
\* holds after the import of the module
initialize_sample_data(exists, stored, sample) ==
  IF exists THEN stored ELSE sample

\* the state after import: no data file exists before the first start, and
\* initialize_sample_data has written all four
Init ==
  /\ districts = sample_districts
  /\ departments = sample_departments
  /\ employees = sample_employees
  /\ attendance_records = sample_attendance
  /\ nextId = 1
  /\ response = [op |-> "startup", status |-> 200]
  /\ steps = 0
  /\ call = [check_in |-> None, check_out |-> None, result |-> "0:00"]
  /\ requests = <<>>
  /\ process = [state |-> "running", torn |-> "none"]

\* APIResponse(success=True, ...) of handler op
Ok(op) == [op |-> op, status |-> 200]

\* HTTPException(status_code=code, ...) raised by handler op
HTTPException(op, code) == [op |-> op, status |-> code]

\* an exception that handler op does not catch (a TypeError): the server
\* answers 500 Internal Server Error
InternalServerError(op) == [op |-> op, status |-> 500]

----------------------------------------------------------------------------
(* Districts *)

\* request bodies of POST /districts; the id a client sends is overwritten
DistrictBodies ==
  [id : {"1"}, name : {"Yangi tuman"}, code : {"TSH001", "NEW001"}]

\* path parameters of PUT and DELETE /districts/{district_id}
DistrictIds == {"1", "2", "9"}

\* request bodies of PUT /districts/{district_id}
DistrictPatches ==
  { [code |-> "TSH001"], [id |-> "9"], [name |-> "Yangi tuman"] }

\* GET /districts
get_districts == districts

\* CodeExists comparing the name field instead of the code field
CodeExistsByName(ds, code) == \E i \in 1..Len(ds) : ds[i].name = code

\* any(d['code'] == code for d in ds)
CodeExists(ds, code) == \E i \in 1..Len(ds) : ds[i].code = code

\* POST /districts
create_district(district) ==
  IF CodeExists(districts, district.code)
  THEN /\ response' = HTTPException("create_district", 400)
       /\ UNCHANGED <<files, nextId>>
  ELSE /\ districts' = Append(districts,
                         DictUpdate(district, [id |-> generate_id(nextId)]))
       /\ nextId' = nextId + 1
       /\ response' = Ok("create_district")
       /\ UNCHANGED <<departments, employees, attendance_records>>

\* PUT /districts/{district_id}
update_district(district_id, district_data) ==
  LET i == IndexOf(districts, district_id) IN
  IF i # 0
  THEN /\ districts' = SetAt(districts, i,
                             DictUpdate(districts[i], district_data))
       /\ response' = Ok("update_district")
       /\ UNCHANGED <<departments, employees, attendance_records, nextId>>
  ELSE /\ response' = HTTPException("update_district", 404)
       /\ UNCHANGED <<files, nextId>>

\* any(dept['districtId'] == district_id for dept in depts)
HasDepartments(depts, district_id) ==
  \E i \in 1..Len(depts) : depts[i].districtId = district_id

\* DELETE /districts/{district_id}
delete_district(district_id) ==
  IF HasDepartments(departments, district_id)
  THEN /\ response' = HTTPException("delete_district", 400)
       /\ UNCHANGED <<files, nextId>>
  ELSE /\ districts' = SelectSeq(districts, LAMBDA d : d.id # district_id)
       /\ response' = Ok("delete_district")
       /\ UNCHANGED <<departments, employees, attendance_records, nextId>>

----------------------------------------------------------------------------
(* Departments *)

\* request bodies of POST /departments; Department.employeeCount defaults to
\* 0 when the body leaves it out, and a body may carry any integer
DepartmentBodies ==
  [id : {"1"}, name : {"Yangi bo'lim"}, departmentNumber : {"IT-001", "NEW-01"},
   districtId : {"1", "9"}, districtName : {"Boshqa tuman"},
   employeeCount : {0, 5}]

\* path parameters of PUT and DELETE /departments/{department_id}
DepartmentIds == {"1", "2", "9"}

\* request bodies of PUT /departments/{department_id}
DepartmentPatches ==
  { [employeeCount |-> 0], [employeeCount |-> NotANumber], [id |-> "9"],
    [districtId |-> "9"], [name |-> "Yangi bo'lim"] }

\* GET /departments
get_departments == departments

\* any(d['departmentNumber'] == number and d['districtId'] == district_id
\*     for d in depts)
NumberExists(depts, number, district_id) ==
  \E i \in 1..Len(depts) :
     depts[i].departmentNumber = number /\ depts[i].districtId = district_id

\* POST /departments
create_department(department) ==
  LET i == IndexOf(districts, department.districtId) IN
  IF NumberExists(departments, department.departmentNumber,
                  department.districtId)
  THEN /\ response' = HTTPException("create_department", 400)
       /\ UNCHANGED <<files, nextId>>
  ELSE IF i = 0
  THEN /\ response' = HTTPException("create_department", 404)
       /\ UNCHANGED <<files, nextId>>
  ELSE /\ departments' = Append(departments,
            DictUpdate(department, [id |-> generate_id(nextId),
                                    districtName |-> districts[i].name]))
       /\ nextId' = nextId + 1
       /\ response' = Ok("create_department")
       /\ UNCHANGED <<districts, employees, attendance_records>>

\* PUT /departments/{department_id}
update_department(department_id, department_data) ==
  LET i == IndexOf(departments, department_id) IN
  IF i # 0
  THEN /\ departments' = SetAt(departments, i,
                               DictUpdate(departments[i], department_data))
       /\ response' = Ok("update_department")
       /\ UNCHANGED <<districts, employees, attendance_records, nextId>>
  ELSE /\ response' = HTTPException("update_department", 404)
       /\ UNCHANGED <<files, nextId>>

\* any(emp['departmentId'] == department_id for emp in emps)
HasEmployees(emps, department_id) ==
  \E i \in 1..Len(emps) : emps[i].departmentId = department_id

\* DELETE /departments/{department_id}
delete_department(department_id) ==
  IF HasEmployees(employees, department_id)
  THEN /\ response' = HTTPException("delete_department", 400)
       /\ UNCHANGED <<files, nextId>>
  ELSE /\ departments' = SelectSeq(departments, LAMBDA d : d.id # department_id)
       /\ response' = Ok("delete_department")
       /\ UNCHANGED <<districts, employees, attendance_records, nextId>>

----------------------------------------------------------------------------
(* Employees *)

\* request bodies of POST /employees; the id and the three denormalized
\* fields a client sends are overwritten
EmployeeBodies ==
  [id : {"1"}, name : {"Yangi ishchi"},
   phone : {"+998901234567", "+998900000000"}, departmentId : {"1", "9"},
   departmentName : {"Boshqa bo'lim"}, departmentNumber : {"X-000"},
   districtName : {"Boshqa tuman"}, status : {"active"}]

\* path parameters of PUT and DELETE /employees/{employee_id}
EmployeeIds == {"1", "2", "9"}

\* path parameters of DELETE /employees/{employee_id} in SpecStaff
StaffIds == {"1", "2", "3", "4", "5", "6", "7", "9"}

\* request bodies of PUT /employees/{employee_id}
EmployeePatches ==
  { [phone |-> "+998901234567"], [departmentId |-> "2"], [id |-> "9"],
    [departmentName |-> "Yangi bo'lim"] }

\* GET /employees
get_employees == employees

\* any(emp['phone'] == phone for emp in emps)
PhoneExists(emps, phone) == \E i \in 1..Len(emps) : emps[i].phone = phone

\* d.get(key, default)
Get(d, key, default) == IF key \in DOMAIN d THEN d[key] ELSE default

\* whether count + 1 and count - 1 have a value: on None and on a string they
\* raise TypeError
IsNumber(count) == count # NotANumber

\* for i, d in enumerate(depts): if d['id'] == department_id:
\*     depts[i]['employeeCount'] = depts[i].get('employeeCount', 0) + 1; break
\* The result says whether the addition raised TypeError, and what depts is
\* afterwards.
IncrementCount(depts, department_id) ==
  LET i == IndexOf(depts, department_id)
      count == Get(depts[i], "employeeCount", 0)
  IN IF i = 0 THEN [raised |-> FALSE, departments |-> depts]
     ELSE IF ~IsNumber(count) THEN [raised |-> TRUE, departments |-> depts]
     ELSE [raised |-> FALSE,
           departments |->
             SetAt(depts, i,
                   DictUpdate(depts[i], [employeeCount |-> count + 1]))]

\* for i, d in enumerate(depts): if d['id'] == department_id:
\*     depts[i]['employeeCount'] = max(0, depts[i].get('employeeCount', 1) - 1)
\*     break
\* The result says whether the subtraction raised TypeError, and what depts
\* is afterwards.
DecrementCount(depts, department_id) ==
  LET i == IndexOf(depts, department_id)
      count == Get(depts[i], "employeeCount", 1)
  IN IF i = 0 THEN [raised |-> FALSE, departments |-> depts]
     ELSE IF ~IsNumber(count) THEN [raised |-> TRUE, departments |-> depts]
     ELSE [raised |-> FALSE,
           departments |->
             SetAt(depts, i,
                   DictUpdate(depts[i],
                      [employeeCount |-> Max(0, count - 1)]))]

\* NewEmployee without the assignment of districtName
NewEmployeeBodyDistrict(employee, department, id) ==
  DictUpdate(employee, [id |-> id,
                        departmentName |-> department.name,
                        departmentNumber |-> department.departmentNumber])

\* the record create_employee stores: the body with a generated id and the
\* three fields copied from the resolved department
NewEmployee(employee, department, id) ==
  DictUpdate(employee, [id |-> id,
                        departmentName |-> department.name,
                        departmentNumber |-> department.departmentNumber,
                        districtName |-> department.districtName])

\* create_employee saving the employees before it looks the department up
create_employee_save_first(employee) ==
  LET i == IndexOf(departments, employee.departmentId) IN
  IF PhoneExists(employees, employee.phone)
  THEN /\ response' = HTTPException("create_employee", 400)
       /\ UNCHANGED <<files, nextId>>
  ELSE IF i = 0
  THEN /\ employees' = Append(employees,
            DictUpdate(employee, [id |-> generate_id(nextId)]))
       /\ nextId' = nextId + 1
       /\ response' = HTTPException("create_employee", 404)
       /\ UNCHANGED <<districts, departments, attendance_records>>
  ELSE LET counted == IncrementCount(departments, employee.departmentId) IN
       /\ employees' = Append(employees,
            NewEmployee(employee, departments[i], generate_id(nextId)))
       /\ nextId' = nextId + 1
       /\ departments' = counted.departments
       /\ response' = IF counted.raised
                      THEN InternalServerError("create_employee")
                      ELSE Ok("create_employee")
       /\ UNCHANGED <<districts, attendance_records>>

\* POST /employees.  The employees are saved before the departments are
\* loaded again and counted: when the count raises TypeError the new
\* employee is stored, the departments are not saved and the answer is 500.
create_employee(employee) ==
  LET i == IndexOf(departments, employee.departmentId) IN
  IF PhoneExists(employees, employee.phone)
  THEN /\ response' = HTTPException("create_employee", 400)
       /\ UNCHANGED <<files, nextId>>
  ELSE IF i = 0
  THEN /\ response' = HTTPException("create_employee", 404)
       /\ UNCHANGED <<files, nextId>>
  ELSE LET counted == IncrementCount(departments, employee.departmentId) IN
       /\ employees' = Append(employees,
            NewEmployee(employee, departments[i], generate_id(nextId)))
       /\ nextId' = nextId + 1
       /\ departments' = counted.departments
       /\ response' = IF counted.raised
                      THEN InternalServerError("create_employee")
                      ELSE Ok("create_employee")
       /\ UNCHANGED <<districts, attendance_records>>

\* update_employee moving the employee between the departments' counts when
\* the patch names a departmentId
update_employee_resync(employee_id, employee_data) ==
  LET i == IndexOf(employees, employee_id) IN
  IF i # 0
  THEN /\ employees' = SetAt(employees, i,
                             DictUpdate(employees[i], employee_data))
       /\ departments' =
            IF "departmentId" \in DOMAIN employee_data
            THEN IncrementCount(
                   DecrementCount(departments,
                                  employees[i].departmentId).departments,
                   employee_data.departmentId).departments
            ELSE departments
       /\ response' = Ok("update_employee")
       /\ UNCHANGED <<districts, attendance_records, nextId>>
  ELSE /\ response' = HTTPException("update_employee", 404)
       /\ UNCHANGED <<files, nextId>>

\* PUT /employees/{employee_id}
update_employee(employee_id, employee_data) ==
  LET i == IndexOf(employees, employee_id) IN
  IF i # 0
  THEN /\ employees' = SetAt(employees, i,
                             DictUpdate(employees[i], employee_data))
       /\ response' = Ok("update_employee")
       /\ UNCHANGED <<districts, departments, attendance_records, nextId>>
  ELSE /\ response' = HTTPException("update_employee", 404)
       /\ UNCHANGED <<files, nextId>>

\* DELETE /employees/{employee_id}.  The employees are saved before the
\* count is computed: when it raises TypeError the employee is removed, the
\* departments are not saved and the answer is 500.
delete_employee(employee_id) ==
  LET i == IndexOf(employees, employee_id) IN
  IF i = 0
  THEN /\ response' = HTTPException("delete_employee", 404)
       /\ UNCHANGED <<files, nextId>>
  ELSE LET counted == DecrementCount(departments, employees[i].departmentId)
       IN
       /\ employees' = SelectSeq(employees, LAMBDA emp : emp.id # employee_id)
       /\ departments' = counted.departments
       /\ response' = IF counted.raised
                      THEN InternalServerError("delete_employee")
                      ELSE Ok("delete_employee")
       /\ UNCHANGED <<districts, attendance_records, nextId>>

----------------------------------------------------------------------------
(* Attendance *)

\* datetime.strptime(t, "%H:%M") succeeds
ValidTime(t) == Len(t) = 2 /\ t[1] \in 0..23 /\ t[2] \in 0..59

\* minutes since midnight of a parsed time
Minutes(t) == t[1] * 60 + t[2]

\* f"{minutes:02d}"
Pad2(n) == IF n < 10 THEN "0" \o ToString(n) ELSE ToString(n)

\* f"{hours}:{minutes:02d}" of a duration given in minutes
FormatHours(d) == ToString(d \div 60) \o ":" \o Pad2(d % 60)

\* calculate_work_hours deducting the lunch hour from six hours on, not
\* from more than six hours
calculate_work_hours_from_six(check_in, check_out) ==
  IF check_in = None \/ check_out = None THEN "0:00"
  ELSE IF ~ValidTime(check_in) \/ ~ValidTime(check_out) THEN "0:00"
  ELSE LET diff == Minutes(check_out) - Minutes(check_in) IN
       IF diff > 0
       THEN FormatHours(IF diff * 60 >= 6 * 3600 THEN diff - 60 ELSE diff)
       ELSE "0:00"

calculate_work_hours(check_in, check_out) ==
  IF check_in = None \/ check_out = None THEN "0:00"
  ELSE IF ~ValidTime(check_in) \/ ~ValidTime(check_out) THEN "0:00"
  ELSE LET diff == Minutes(check_out) - Minutes(check_in) IN
       IF diff > 0
       THEN FormatHours(IF diff * 60 > 6 * 3600 THEN diff - 60 ELSE diff)
       ELSE "0:00"

\* what a POST /attendance body says besides employeeId and date
AttendanceMarks ==
  { [checkIn |-> <<9, 0>>, checkOut |-> <<18, 0>>, status |-> "present",
     location |-> Toshkent],
    [checkIn |-> <<9, 30>>, checkOut |-> <<11, 0>>, status |-> "late",
     location |-> Samarqand],
    [checkIn |-> None, checkOut |-> None, status |-> "absent",
     location |-> NoLocation] }

\* request bodies of POST /attendance
AttendanceBodies ==
  { DictUpdate(m, [employeeId |-> e, date |-> d]) :
      m \in AttendanceMarks, e \in {"1", "6", "9"}, d \in {Today, Yesterday} }

\* GET /attendance?date=...
get_attendance(date) == SelectSeq(attendance_records, LAMBDA r : r.date = date)

\* ExistingRecord comparing the record's id instead of its employeeId
ExistingRecordById(records, employee_id, date) ==
  First({ i \in 1..Len(records) :
            records[i].id = employee_id /\ records[i].date = date })

\* next((record for record in records if record['employeeId'] == employee_id
\*       and record['date'] == date), None), as an index, 0 for None
ExistingRecord(records, employee_id, date) ==
  First({ i \in 1..Len(records) :
            records[i].employeeId = employee_id /\ records[i].date = date })

\* FindEmployee comparing the employee's departmentId instead of its id
FindEmployeeByDepartment(emps, employee_id) ==
  First({ i \in 1..Len(emps) : emps[i].departmentId = employee_id })

\* next((emp for emp in emps if emp['id'] == employee_id), None), as an
\* index, 0 for None
FindEmployee(emps, employee_id) == IndexOf(emps, employee_id)

\* UpdatedRecord without the recomputation of workHours
UpdatedRecordOldHours(record, attendance) ==
  DictUpdate(record,
    [checkIn |-> attendance.checkIn,
     checkOut |-> attendance.checkOut,
     status |-> attendance.status,
     location |-> attendance.location])

\* record.update({'checkIn': ..., 'checkOut': ..., 'status': ...,
\*                'location': ..., 'workHours': calculate_work_hours(...)})
UpdatedRecord(record, attendance) ==
  DictUpdate(record,
    [checkIn |-> attendance.checkIn,
     checkOut |-> attendance.checkOut,
     status |-> attendance.status,
     location |-> attendance.location,
     workHours |-> calculate_work_hours(attendance.checkIn,
                                        attendance.checkOut)])

\* POST /attendance
mark_attendance(attendance) ==
  LET e == FindEmployee(employees, attendance.employeeId)
      x == ExistingRecord(attendance_records, attendance.employeeId,
                          attendance.date)
      workHours == calculate_work_hours(attendance.checkIn,
                                        attendance.checkOut)
  IN
  IF e = 0
  THEN /\ response' = HTTPException("mark_attendance", 404)
       /\ UNCHANGED <<files, nextId>>
  ELSE IF x # 0
  THEN LET i == IndexOf(attendance_records, attendance_records[x].id) IN
       /\ attendance_records' = SetAt(attendance_records, i,
            UpdatedRecord(attendance_records[i], attendance))
       /\ response' = Ok("mark_attendance")
       /\ UNCHANGED <<districts, departments, employees, nextId>>
  ELSE /\ attendance_records' = Append(attendance_records,
            [id |-> generate_id(nextId),
             employeeName |-> employees[e].name,
             employeeId |-> attendance.employeeId,
             department |-> employees[e].departmentName,
             date |-> attendance.date,
             checkIn |-> attendance.checkIn,
             checkOut |-> attendance.checkOut,
             status |-> attendance.status,
             workHours |-> workHours,
             location |-> attendance.location])
       /\ nextId' = nextId + 1
       /\ response' = Ok("mark_attendance")
       /\ UNCHANGED <<districts, departments, employees>>

----------------------------------------------------------------------------
(* Statistics: GET /statistics reads the four files and writes none *)

total_employees == Len(employees)

today_attendance == SelectSeq(attendance_records, LAMBDA r : r.date = Today)

present_today == Len(SelectSeq(today_attendance, LAMBDA r : r.status = "present"))

late_today == Len(SelectSeq(today_attendance, LAMBDA r : r.status = "late"))

\* 2^t
RECURSIVE Pow2(_)
Pow2(t) == IF t = 0 THEN 1 ELSE 2 * Pow2(t - 1)

\* x doubled the given number of times, modulo m
RECURSIVE DoubleMod(_, _, _)
DoubleMod(x, times, m) ==
  IF times = 0 THEN x ELSE DoubleMod((2 * x) % m, times - 1, m)

\* k / n = 2^e * kk / nn with kk / nn in [1, 2): the numerator kk
RECURSIVE NormK(_, _)
NormK(k, n) == IF k < n THEN NormK(2 * k, n) ELSE k

\* k / n = 2^e * kk / nn with kk / nn in [1, 2): the denominator nn
RECURSIVE NormN(_, _)
NormN(k, n) == IF k >= 2 * n THEN NormN(k, 2 * n) ELSE n

\* the sign of (k / n * 100 as Python computes it) - (100 k / n), for k > 0:
\* k / n is the double nearest to the quotient, a 53-bit significand M with
\* M * nn = kk * 2^52 + d1, and its product with 100 is rounded to 53 bits
\* again, 100 * M + d2; both roundings are to nearest, ties to even, and the
\* error of the result has the sign of 100 * d1 + nn * d2.  The low bits of
\* M come from kk * 2^52 modulo 256 * nn.
FloatErrorSign(k, n) ==
  LET kk == NormK(k, n)
      nn == NormN(kk, n)
      a == DoubleMod(kk % (256 * nn), 52, 256 * nn)
      r == a % nn
      m0 == ((a - r) \div nn) % 256
      up1 == 2 * r > nn \/ (2 * r = nn /\ m0 % 2 = 1)
      d1 == IF up1 THEN nn - r ELSE 0 - r
      mm == (m0 + (IF up1 THEN 1 ELSE 0)) % 256
      t == IF 100 * kk > 128 * nn \/ (100 * kk = 128 * nn /\ d1 >= 0)
           THEN 7 ELSE 6
      p == (100 * mm) % Pow2(t + 1)
      r2 == p % Pow2(t)
      bit == p \div Pow2(t)
      up2 == r2 > Pow2(t - 1) \/ (r2 = Pow2(t - 1) /\ bit = 1)
      d2 == IF up2 THEN Pow2(t) - r2 ELSE 0 - r2
      v == 100 * d1 + nn * d2
  IN IF v > 0 THEN 1 ELSE IF v < 0 THEN -1 ELSE 0

\* round(k / max(n, 1) * 100, 1) in tenths of a percent: round() rounds the
\* double that the division and the multiplication produce, to the nearest
\* tenth and to the even one at a tie.  The double is so close to 100 k / n
\* that the two round alike unless 100 k / n is itself a tie (x.x5); there
\* the double's error decides, and only a double that is exactly the tie
\* goes to the even tenth.
Round1(k, n) ==
  LET m == Max(n, 1)
      q == (1000 * k) \div m
      r == (1000 * k) % m
      s == FloatErrorSign(k, m)
  IN IF 2 * r > m THEN q + 1
     ELSE IF 2 * r < m THEN q
     ELSE IF k = 0 THEN 0
     ELSE IF s > 0 THEN q + 1
     ELSE IF s < 0 THEN q
     ELSE IF q % 2 = 0 THEN q ELSE q + 1

\* statistics_data["attendance"]["percentage"], in tenths of a percent
attendance_percentage ==
  IF total_employees > 0
  THEN Round1(present_today + late_today, total_employees)
  ELSE 0

----------------------------------------------------------------------------
(* Requests.  A behaviour of Spec serves at most MaxSteps requests, any
   handler with any of the inputs above; a behaviour of SpecStaff serves at
   most MaxStaffSteps employee deletions and attendance upserts. *)

Tick ==
  /\ steps < MaxSteps
  /\ steps' = steps + 1
  /\ UNCHANGED <<call, requests, process>>

PostDistrict == Tick /\ \E district \in DistrictBodies : create_district(district)

PutDistrict ==
  Tick /\ \E id \in DistrictIds, patch \in DistrictPatches :
            update_district(id, patch)

DeleteDistrict == Tick /\ \E id \in DistrictIds : delete_district(id)

PostDepartment ==
  Tick /\ \E department \in DepartmentBodies : create_department(department)

PutDepartment ==
  Tick /\ \E id \in DepartmentIds, patch \in DepartmentPatches :
            update_department(id, patch)

DeleteDepartment == Tick /\ \E id \in DepartmentIds : delete_department(id)

PostEmployee == Tick /\ \E employee \in EmployeeBodies : create_employee(employee)

PutEmployee ==
  Tick /\ \E id \in EmployeeIds, patch \in EmployeePatches :
            update_employee(id, patch)

DeleteEmployee == Tick /\ \E id \in EmployeeIds : delete_employee(id)

PostAttendance ==
  Tick /\ \E attendance \in AttendanceBodies : mark_attendance(attendance)

Next ==
  \/ PostDistrict
  \/ PutDistrict
  \/ DeleteDistrict
  \/ PostDepartment
  \/ PutDepartment
  \/ DeleteDepartment
  \/ PostEmployee
  \/ PutEmployee
  \/ DeleteEmployee
  \/ PostAttendance

Spec == Init /\ [][Next]_vars

StaffTick ==
  /\ steps < MaxStaffSteps
  /\ steps' = steps + 1
  /\ UNCHANGED <<call, requests, process>>

StaffDeleteEmployee == StaffTick /\ \E id \in StaffIds : delete_employee(id)

StaffPostAttendance ==
  StaffTick /\ \E attendance \in AttendanceBodies : mark_attendance(attendance)

NextStaff ==
  \/ StaffDeleteEmployee
  \/ StaffPostAttendance

SpecStaff == Init /\ [][NextStaff]_vars

(* calculate_work_hours on its own: SpecHours starts with any two arguments,
   each None or a time of day, and takes the one step that calls it. *)

\* the minutes of the times of day tried
TriedMinutes == {0, 1, 30, 59}

\* None and the valid "HH:MM" strings tried
Times == {None} \cup { <<h, m>> : h \in 0..23, m \in TriedMinutes }

InitHours ==
  /\ districts = sample_districts
  /\ departments = sample_departments
  /\ employees = sample_employees
  /\ attendance_records = sample_attendance
  /\ nextId = 1
  /\ response = [op |-> "startup", status |-> 200]
  /\ steps = 0
  /\ call \in [check_in : Times, check_out : Times, result : {"pending"}]
  /\ requests = <<>>
  /\ process = [state |-> "running", torn |-> "none"]

CalculateWorkHours ==
  /\ call.result = "pending"
  /\ call' = [call EXCEPT
                 !.result = calculate_work_hours(call.check_in, call.check_out)]
  /\ UNCHANGED <<files, nextId, response, steps, requests, process>>

NextHours == CalculateWorkHours

SpecHours == InitHours /\ [][NextHours]_vars

----------------------------------------------------------------------------
(* Requests open at the same time: create_district on the event loop *)

\* request bodies of POST /districts sent while other requests are open
LoopBodies ==
  [id : {"1"}, name : {"Yangi tuman"}, code : {"TSH001", "NEW001", "NEW002"}]

\* LoopFree for a handler declared with def: Starlette runs it in a thread
\* pool, and a thread starts whatever the other requests are doing
LoopFreeThreaded(reqs, r) == TRUE

\* create_district is declared async def and contains no await: once the
\* event loop has entered it for one request, it enters it for request r only
\* after that request has left it, so no other request is between its load
\* and its save
LoopFree(reqs, r) ==
  \A q \in 1..Len(reqs) : q # r => reqs[q].pc # "loaded"

\* uvicorn accepts a POST /districts request and schedules its handler
Arrive(district) ==
  /\ Len(requests) < MaxRequests
  /\ requests' = Append(requests,
       [pc |-> "pending", body |-> district, local |-> <<>>, status |-> 0])
  /\ UNCHANGED <<files, nextId, response, steps, call, process>>

\* districts = load_json_data(DISTRICTS_FILE)
Load(r) ==
  /\ requests[r].pc = "pending"
  /\ LoopFree(requests, r)
  /\ requests' = [requests EXCEPT ![r].pc = "loaded", ![r].local = districts]
  /\ UNCHANGED <<files, nextId, response, steps, call, process>>

\* the rest of create_district: the duplicate check on the loaded list, the
\* append to it, and save_json_data, which replaces the file's content
Save(r) ==
  /\ requests[r].pc = "loaded"
  /\ IF CodeExists(requests[r].local, requests[r].body.code)
     THEN /\ requests' = [requests EXCEPT ![r].pc = "done", ![r].status = 400]
          /\ response' = HTTPException("create_district", 400)
          /\ UNCHANGED <<files, nextId>>
     ELSE /\ districts' = Append(requests[r].local,
               DictUpdate(requests[r].body, [id |-> generate_id(nextId)]))
          /\ nextId' = nextId + 1
          /\ requests' = [requests EXCEPT ![r].pc = "done", ![r].status = 200]
          /\ response' = Ok("create_district")
          /\ UNCHANGED <<departments, employees, attendance_records>>
  /\ UNCHANGED <<steps, call, process>>

LoopArrive == \E district \in LoopBodies : Arrive(district)

LoopLoad == \E r \in 1..Len(requests) : Load(r)

LoopSave == \E r \in 1..Len(requests) : Save(r)

NextLoop ==
  \/ LoopArrive
  \/ LoopLoad
  \/ LoopSave

SpecLoop == Init /\ [][NextLoop]_vars

----------------------------------------------------------------------------
(* Requests on the employees of one department: create, delete, and the    *)
(* patches of the department that change what its employeeCount says       *)

\* request bodies of PUT /departments/{department_id} in SpecRound
RoundPatches ==
  { [employeeCount |-> -1], [employeeCount |-> 0],
    [employeeCount |-> NotANumber], [id |-> "9"] }

\* path parameters of DELETE /employees/{employee_id} in SpecRound: a seeded
\* employee and the ids create_employee has handed out
RoundIds == {"1"} \cup { generate_id(n) : n \in 1..MaxRoundSteps }

RoundTick ==
  /\ steps < MaxRoundSteps
  /\ steps' = steps + 1
  /\ UNCHANGED <<call, requests, process>>

RoundPutDepartment ==
  RoundTick /\ \E id \in {"1", "2"}, department_data \in RoundPatches :
                  update_department(id, department_data)

RoundPostEmployee ==
  RoundTick /\ \E employee \in EmployeeBodies : create_employee(employee)

RoundDeleteEmployee == RoundTick /\ \E id \in RoundIds : delete_employee(id)

NextRound ==
  \/ RoundPutDepartment
  \/ RoundPostEmployee
  \/ RoundDeleteEmployee

SpecRound == Init /\ [][NextRound]_vars

----------------------------------------------------------------------------
(* The process stops between the two saves of create_employee and is       *)
(* started again                                                           *)

\* request bodies of POST /departments in SpecCrash
CrashDepartmentBodies ==
  { d \in DepartmentBodies : d.employeeCount = 0 /\ d.districtId = "1" }

\* request bodies of POST /employees in SpecCrash: for a seeded department
\* and for the first department created since startup
CrashEmployeeBodies ==
  { DictUpdate(e, [departmentId |-> d]) :
      e \in EmployeeBodies, d \in {"1", generate_id(1)} }

\* path parameters of DELETE /employees/{employee_id} in SpecCrash
CrashIds == {"1"} \cup { generate_id(n) : n \in 1..MaxCrashSteps }

CrashTick ==
  /\ process.state = "running"
  /\ steps < MaxCrashSteps
  /\ steps' = steps + 1
  /\ UNCHANGED <<call, requests, process>>

CrashPostDepartment ==
  CrashTick /\ \E department \in CrashDepartmentBodies :
                  create_department(department)

CrashPostEmployee ==
  CrashTick /\ \E employee \in CrashEmployeeBodies : create_employee(employee)

CrashPutEmployee == CrashTick /\ update_employee("1", [departmentId |-> "2"])

CrashDeleteEmployee == CrashTick /\ \E id \in CrashIds : delete_employee(id)

\* create_employee up to and including save_json_data(EMPLOYEES_FILE, ...):
\* the process stops before it loads the departments again, and no response
\* is sent
StopInCreateEmployee ==
  /\ process.state = "running"
  /\ steps < MaxCrashSteps
  /\ steps' = steps + 1
  /\ \E employee \in CrashEmployeeBodies :
        LET i == IndexOf(departments, employee.departmentId) IN
        /\ ~PhoneExists(employees, employee.phone)
        /\ i # 0
        /\ employees' = Append(employees,
             NewEmployee(employee, departments[i], generate_id(nextId)))
        /\ nextId' = nextId + 1
        /\ process' = [state |-> "stopped", torn |-> employee.departmentId]
  /\ UNCHANGED <<districts, departments, attendance_records, response,
                 call, requests>>

\* the module is imported again: initialize_sample_data finds the four files
\* that the first import wrote, and the handlers are served again
Restart ==
  /\ process.state = "stopped"
  /\ districts' = initialize_sample_data(TRUE, districts, sample_districts)
  /\ departments' =
       initialize_sample_data(TRUE, departments, sample_departments)
  /\ employees' = initialize_sample_data(TRUE, employees, sample_employees)
  /\ attendance_records' =
       initialize_sample_data(TRUE, attendance_records, sample_attendance)
  /\ process' = [process EXCEPT !.state = "running"]
  /\ response' = [op |-> "startup", status |-> 200]
  /\ UNCHANGED <<nextId, steps, call, requests>>

NextCrash ==
  \/ CrashPostDepartment
  \/ CrashPostEmployee
  \/ CrashPutEmployee
  \/ CrashDeleteEmployee
  \/ StopInCreateEmployee
  \/ Restart

SpecCrash == Init /\ [][NextCrash]_vars

----------------------------------------------------------------------------
(* Properties *)

\* the ids stored in a collection
IdsOf(s) == { s[i].id : i \in 1..Len(s) }

\* number of employees whose departmentId is id
Members(id) ==
  Cardinality({ j \in 1..Len(employees) : employees[j].departmentId = id })

\* s without its k-th element
RemoveAt(s, k) == SubSeq(s, 1, k - 1) \o SubSeq(s, k + 1, Len(s))

\* C1: every department's employeeCount equals the number of employees whose
\* departmentId is that department's id.
C1_EmployeeCountMatches ==
  \A i \in 1..Len(departments) :
     departments[i].employeeCount = Members(departments[i].id)

\* C2: an accepted employee create adds one to the employeeCount of the
\* department its departmentId resolves to, changes no other department, and
\* stores the new employee with that department's name, departmentNumber and
\* districtName as they were when the request arrived.
C2_CreateEmployeeCounts ==
  [][ \A e \in EmployeeBodies :
        (create_employee(e) /\ response'.status = 200) =>
          LET i == IndexOf(departments, e.departmentId)
              new == employees'[Len(employees')]
          IN /\ i # 0
             /\ Len(departments') = Len(departments)
             /\ departments'[i].employeeCount = departments[i].employeeCount + 1
             /\ \A j \in 1..Len(departments) :
                  j # i => departments'[j] = departments[j]
             /\ Len(employees') = Len(employees) + 1
             /\ new.departmentId = e.departmentId
             /\ new.departmentName = departments[i].name
             /\ new.departmentNumber = departments[i].departmentNumber
             /\ new.districtName = departments[i].districtName
    ]_vars

\* an employee create was accepted: the stored employee carries the generated
\* id and the department's number instead of the values of the request body
C2_Witness ==
  /\ response = Ok("create_employee")
  /\ employees[Len(employees)].id = generate_id(nextId - 1)
  /\ employees[Len(employees)].departmentNumber = "IT-001"
  /\ departments[1].employeeCount = 4

\* C3: a successful department create stores employeeCount = 0 and the name
\* of the resolved district as districtName, whatever the body carried.
C3_CreateDepartmentDefaults ==
  [][ \A d \in DepartmentBodies :
        (create_department(d) /\ response'.status = 200) =>
          LET i == IndexOf(districts, d.districtId)
              new == departments'[Len(departments')]
          IN /\ Len(departments') = Len(departments) + 1
             /\ new.employeeCount = 0
             /\ new.districtName = districts[i].name
    ]_vars

\* C4: the attendance percentage of GET /statistics lies between 0 and 100:
\* today's present and late records never outnumber the employees, and the
\* percentage is 0 when there is no employee.
C4_PercentageInRange ==
  /\ attendance_percentage \in 0..1000
  /\ present_today + late_today <= total_employees
  /\ total_employees = 0 => attendance_percentage = 0

\* C5: no two stored districts have the same code.
C5_DistrictCodesUnique ==
  \A i, j \in 1..Len(districts) :
     i # j => districts[i].code # districts[j].code

\* C6: a district create with a code some stored district has fails with 400
\* and leaves the districts as they were; with a code no stored district has
\* it succeeds, and the new district, under an id no stored district had, is
\* the last element GET /districts returns.
C6_CreateDistrict ==
  [][ \A d \in DistrictBodies :
        create_district(d) =>
          IF \E i \in 1..Len(districts) : districts[i].code = d.code
          THEN response'.status = 400 /\ districts' = districts
          ELSE LET new == get_districts'[Len(get_districts')] IN
               /\ response'.status = 200
               /\ Len(get_districts') = Len(districts) + 1
               /\ SubSeq(get_districts', 1, Len(districts)) = districts
               /\ new.code = d.code
               /\ new.name = d.name
               /\ new.id \notin IdsOf(districts)
    ]_vars

\* a district was created under a generated id, and a later create with a
\* stored code has just been refused
C6_Witness ==
  /\ response = HTTPException("create_district", 400)
  /\ Len(districts) = 3
  /\ districts[3].code = "NEW001"
  /\ districts[3].id = generate_id(1)

\* C7: deleting a district some department references fails with 400 and
\* changes nothing; deleting a stored district no department references
\* succeeds and removes that one district, the others staying in order.
C7_DeleteDistrict ==
  [][ \A id \in DistrictIds :
        delete_district(id) =>
          IF \E i \in 1..Len(departments) : departments[i].districtId = id
          THEN response'.status = 400 /\ UNCHANGED files
          ELSE /\ response'.status = 200
               /\ id \in IdsOf(districts) =>
                    \E k \in 1..Len(districts) :
                       /\ districts[k].id = id
                       /\ districts' = RemoveAt(districts, k)
    ]_vars

\* C8: a department create fails with 404 whenever districtId resolves to no
\* stored district, and with 400 whenever it resolves and a stored
\* department has the same (departmentNumber, districtId); neither the
\* departments nor the districts change.
C8_CreateDepartmentErrors ==
  [][ \A d \in DepartmentBodies :
        create_department(d) =>
          LET resolves == d.districtId \in IdsOf(districts)
              taken == \E i \in 1..Len(departments) :
                         /\ departments[i].departmentNumber = d.departmentNumber
                         /\ departments[i].districtId = d.districtId
          IN /\ ~resolves =>
                  response'.status = 404 /\ UNCHANGED <<departments, districts>>
             /\ (resolves /\ taken) =>
                  response'.status = 400 /\ UNCHANGED <<departments, districts>>
    ]_vars

\* C9: no two stored employees have the same phone.
C9_PhonesUnique ==
  \A i, j \in 1..Len(employees) :
     i # j => employees[i].phone # employees[j].phone

\* C10: the attendance collection holds at most one record for each
\* (employeeId, date) pair.
C10_OneRecordPerEmployeeAndDate ==
  \A i, j \in 1..Len(attendance_records) :
     i # j => ~ /\ attendance_records[i].employeeId
                     = attendance_records[j].employeeId
                /\ attendance_records[i].date = attendance_records[j].date

\* an upsert has appended a record for a pair that had none, and another has
\* rewritten the seeded record of employee 1 for today in place
C10_Witness ==
  /\ response = Ok("mark_attendance")
  /\ Len(attendance_records) = 8
  /\ attendance_records[8].employeeId = "6"
  /\ attendance_records[1].status = "absent"

\* the indices of the attendance records of employee e on date d
RecordsOf(records, e, d) ==
  { i \in 1..Len(records) : records[i].employeeId = e /\ records[i].date = d }

\* the hours the three request bodies of AttendanceMarks work out to: nine
\* hours less the lunch hour, an hour and a half, and nothing
ExpectedHours(a) ==
  CASE a.status = "present" -> "8:00"
    [] a.status = "late" -> "1:30"
    [] a.status = "absent" -> "0:00"

\* C11: an upsert for a stored employee and a date that already has a record
\* of that employee leaves exactly one record for the pair; it carries the
\* checkIn, checkOut, status, location and workHours of this call and keeps
\* the id, employeeName and department the creating call gave it, and no
\* other record changes.
C11_UpsertTwice ==
  [][ response'.op = "mark_attendance" => \A a \in AttendanceBodies :
        ( /\ mark_attendance(a)
          /\ a.employeeId \in IdsOf(employees)
          /\ RecordsOf(attendance_records, a.employeeId, a.date) # {} ) =>
          LET x == First(RecordsOf(attendance_records, a.employeeId, a.date))
              old == attendance_records[x]
              new == attendance_records'[x]
          IN /\ response'.status = 200
             /\ Len(attendance_records') = Len(attendance_records)
             /\ RecordsOf(attendance_records', a.employeeId, a.date) = {x}
             /\ new.checkIn = a.checkIn
             /\ new.checkOut = a.checkOut
             /\ new.status = a.status
             /\ new.location = a.location
             /\ new.workHours = ExpectedHours(a)
             /\ new.id = old.id
             /\ new.employeeName = old.employeeName
             /\ new.department = old.department
             /\ \A j \in 1..Len(attendance_records) :
                  j # x => attendance_records'[j] = attendance_records[j]
    ]_vars

\* two upserts for employee 6 and yesterday: the first appended the record
\* under a generated id, the second rewrote it to a late morning
C11_Witness ==
  /\ response = Ok("mark_attendance")
  /\ steps = 2
  /\ nextId = 2
  /\ Len(attendance_records) = 8
  /\ attendance_records[8].id = generate_id(1)
  /\ attendance_records[8].employeeId = "6"
  /\ attendance_records[8].date = Yesterday
  /\ attendance_records[8].employeeName = "Rahimova Madina"
  /\ attendance_records[8].status = "late"
  /\ attendance_records[8].workHours = "1:30"

\* the decimal digits
Digit == <<"0", "1", "2", "3", "4", "5", "6", "7", "8", "9">>

\* n minutes written H:MM, the hours without padding, the minutes with two
\* digits
HMM(n) ==
  LET h == n \div 60
      m == n % 60
  IN (IF h < 10 THEN Digit[h + 1]
      ELSE Digit[(h \div 10) + 1] \o Digit[(h % 10) + 1])
     \o ":" \o Digit[(m \div 10) + 1] \o Digit[(m % 10) + 1]

\* the minutes from check-in to check-out
Elapsed(check_in, check_out) ==
  (check_out[1] - check_in[1]) * 60 + (check_out[2] - check_in[2])

\* C12: for check-in and check-out each absent or a valid time of day,
\* calculate_work_hours returns "0:00" when either is absent or check-out is
\* not after check-in; otherwise, with d the minutes between them, d as H:MM
\* when d <= 360 and d - 60 as H:MM when d > 360.  09:00-18:00 gives "8:00",
\* 09:00-11:00 gives "2:00" and 18:00-09:00 gives "0:00".
C12_WorkHours ==
  /\ call.result # "pending" =>
       call.result =
         IF call.check_in = None \/ call.check_out = None THEN "0:00"
         ELSE LET d == Elapsed(call.check_in, call.check_out) IN
              IF d <= 0 THEN "0:00"
              ELSE IF d <= 360 THEN HMM(d)
              ELSE HMM(d - 60)
  /\ calculate_work_hours(<<9, 0>>, <<18, 0>>) = "8:00"
  /\ calculate_work_hours(<<9, 0>>, <<11, 0>>) = "2:00"
  /\ calculate_work_hours(<<18, 0>>, <<9, 0>>) = "0:00"

\* the call on exactly six hours has returned: no lunch hour is deducted
C12_Witness ==
  call = [check_in |-> <<9, 0>>, check_out |-> <<15, 0>>, result |-> "6:00"]

\* C13: an employee delete fails with 404 and changes nothing when no
\* employee has that id; otherwise it removes exactly one employee, one with
\* that id, and every department whose id is that employee's departmentId
\* gets max(0, employeeCount - 1) while every other department is unchanged.
C13_DeleteEmployee ==
  [][ response'.op = "delete_employee" => \A id \in StaffIds :
        delete_employee(id) =>
          IF id \notin IdsOf(employees)
          THEN response'.status = 404 /\ UNCHANGED files
          ELSE \E k \in 1..Len(employees) :
                 /\ employees[k].id = id
                 /\ response'.status = 200
                 /\ employees' = RemoveAt(employees, k)
                 /\ Len(departments') = Len(departments)
                 /\ \A j \in 1..Len(departments) :
                      departments'[j] =
                        IF departments[j].id = employees[k].departmentId
                        THEN DictUpdate(departments[j],
                               [employeeCount |->
                                  Max(0, departments[j].employeeCount - 1)])
                        ELSE departments[j]
    ]_vars

\* new is old merged with patch: the patch's value for every field of the
\* patch, the old value for every other field, and no further field
Merged(old, new, patch) ==
  /\ DOMAIN new = (DOMAIN old) \cup (DOMAIN patch)
  /\ \A k \in DOMAIN patch : new[k] = patch[k]
  /\ \A k \in (DOMAIN old) \ (DOMAIN patch) : new[k] = old[k]

\* what an update of collection s to s2 by (id, patch) with the given status
\* has to look like
Updated(s, s2, id, patch, status) ==
  IF id \in IdsOf(s)
  THEN LET x == First({ i \in 1..Len(s) : s[i].id = id }) IN
       /\ status = 200
       /\ Len(s2) = Len(s)
       /\ Merged(s[x], s2[x], patch)
       /\ \A j \in 1..Len(s) : j # x => s2[j] = s[j]
  ELSE status = 404 /\ s2 = s

\* C14: an update of a district, department or employee whose id is stored
\* gives the (first) record with that id the patch's value for every field of
\* the patch and leaves its other fields, the other records and the order as
\* they were; an update of an id that is not stored fails with 404 and leaves
\* the collection unchanged.
C14_Update ==
  [][ /\ response'.op = "update_district" =>
           \A id \in DistrictIds, p \in DistrictPatches :
              update_district(id, p) =>
                Updated(districts, districts', id, p, response'.status)
      /\ response'.op = "update_department" =>
           \A id \in DepartmentIds, p \in DepartmentPatches :
              update_department(id, p) =>
                Updated(departments, departments', id, p, response'.status)
      /\ response'.op = "update_employee" =>
           \A id \in EmployeeIds, p \in EmployeePatches :
              update_employee(id, p) =>
                Updated(employees, employees', id, p, response'.status)
    ]_vars

\* department 1 has just been patched to employeeCount 0 and kept its other
\* fields, and an earlier update of district 9 was refused without a trace
C14_Witness ==
  /\ response = Ok("update_department")
  /\ departments[1] = DictUpdate(sample_departments[1], [employeeCount |-> 0])
  /\ SubSeq(departments, 2, 3) = SubSeq(sample_departments, 2, 3)
  /\ districts = sample_districts
  /\ employees = sample_employees

\* C15: an upsert whose employeeId is the id of no stored employee fails with
\* 404 and leaves the attendance collection unchanged, also when a record for
\* its (employeeId, date) is stored.
C15_UpsertUnknownEmployee ==
  [][ response'.op = "mark_attendance" => \A a \in AttendanceBodies :
        (mark_attendance(a) /\ a.employeeId \notin IdsOf(employees)) =>
          /\ response'.status = 404
          /\ attendance_records' = attendance_records
    ]_vars

\* an upsert has just been refused while, of the employeeIds a body can
\* carry, only "1" is the id of no stored employee, and the records of
\* employee "1" for both dates are still stored
C15_Witness ==
  /\ response = HTTPException("mark_attendance", 404)
  /\ "1" \notin IdsOf(employees)
  /\ {"6", "9"} \subseteq IdsOf(employees)
  /\ RecordsOf(attendance_records, "1", Today) # {}
  /\ RecordsOf(attendance_records, "1", Yesterday) # {}

\* C16: deleting a district id that is not stored returns success, never an
\* error, and leaves the districts unchanged, so that a second delete of the
\* same id changes nothing.
C16_DeleteAbsentDistrict ==
  [][ response'.op = "delete_district" => \A id \in DistrictIds :
        (delete_district(id) /\ id \notin IdsOf(districts)) =>
          response'.status = 200 /\ districts' = districts
    ]_vars

\* C17: a department delete fails with 400 and changes nothing whenever a
\* stored employee's departmentId is the given id, whatever the employeeCount;
\* otherwise it succeeds and, when the id is stored, removes exactly one
\* department, one with that id, the others staying in order.
C17_DeleteDepartment ==
  [][ response'.op = "delete_department" => \A id \in DepartmentIds :
        delete_department(id) =>
          IF \E i \in 1..Len(employees) : employees[i].departmentId = id
          THEN response'.status = 400 /\ UNCHANGED files
          ELSE /\ response'.status = 200
               /\ id \in IdsOf(departments) =>
                    \E k \in 1..Len(departments) :
                       /\ departments[k].id = id
                       /\ departments' = RemoveAt(departments, k)
    ]_vars

\* C18: an employee update leaves the departments as they were, and the
\* updated employee keeps every field the patch does not name: after a patch
\* of departmentId alone, departmentName, departmentNumber and districtName
\* are the old ones and no employeeCount has moved.
C18_UpdateEmployeeNoResync ==
  [][ response'.op = "update_employee" =>
        \A id \in EmployeeIds, p \in EmployeePatches :
           update_employee(id, p) =>
             /\ departments' = departments
             /\ Len(employees') = Len(employees)
             /\ \A x \in 1..Len(employees) :
                  \A k \in (DOMAIN employees[x]) \ (DOMAIN p) :
                     employees'[x][k] = employees[x][k]
    ]_vars

\* employee 1 has just been moved from department 1 to department 2: the
\* record still carries the name and number of the IT department, and the
\* two departments still count 3 and 2
C18_Witness ==
  /\ response = Ok("update_employee")
  /\ employees[1] = DictUpdate(sample_employees[1], [departmentId |-> "2"])
  /\ departments[1].employeeCount = 3
  /\ departments[2].employeeCount = 2

\* no two elements of s have the same id
UniqueIds(s) == \A i, j \in 1..Len(s) : i # j => s[i].id # s[j].id

\* C19: in each of the four collections no two records have the same id.
C19_IdsUnique ==
  /\ UniqueIds(districts)
  /\ UniqueIds(departments)
  /\ UniqueIds(employees)
  /\ UniqueIds(attendance_records)

\* C20: two requests that mutate the same collection race.  While one
\* request is between its load and its save, another open request can load
\* as well; and when two requests have both loaded before either saved and
\* both have reported success for different codes, the district of the one
\* that saved first is not in the stored collection.
C20_Race ==
  \A r1, r2 \in 1..Len(requests) :
     /\ (r1 # r2 /\ requests[r1].pc = "loaded" /\ requests[r2].pc = "pending")
           => ENABLED Load(r2)
     /\ ( /\ r1 # r2
          /\ requests[r1].status = 200
          /\ requests[r2].status = 200
          /\ requests[r1].local = requests[r2].local
          /\ requests[r1].body.code # requests[r2].body.code ) =>
           \E r \in {r1, r2} : ~CodeExists(districts, requests[r].body.code)

\* C20 as amended: requests that are open at the same time do not race.  At
\* most one request is between its load and its save, a request that has
\* loaded holds the stored collection, and every request that has reported
\* success has its district in the stored collection.
C20_NoLostUpdate ==
  /\ \A r1, r2 \in 1..Len(requests) :
        (requests[r1].pc = "loaded" /\ requests[r2].pc = "loaded") => r1 = r2
  /\ \A r \in 1..Len(requests) :
        /\ requests[r].pc = "loaded" => requests[r].local = districts
        /\ requests[r].status = 200 =>
              CodeExists(districts, requests[r].body.code)

\* two requests with different new codes were open at the same time, the one
\* that arrived second was served first, and both districts are stored
C20_Witness ==
  /\ Len(requests) = 2
  /\ requests[1].body.code # requests[2].body.code
  /\ requests[1].status = 200
  /\ requests[2].status = 200
  /\ requests[1].local = Append(sample_districts, districts[3])
  /\ requests[2].local = sample_districts
  /\ Len(districts) = 4
  /\ districts[3].code = requests[2].body.code
  /\ districts[4].code = requests[1].body.code

\* C22: every stored department's districtId is the id of a stored district,
\* and every stored employee's departmentId is the id of a stored department.
C22_ReferentialIntegrity ==
  /\ \A i \in 1..Len(departments) :
        departments[i].districtId \in IdsOf(districts)
  /\ \A i \in 1..Len(employees) :
        employees[i].departmentId \in IdsOf(departments)

\* C23: an operation that answers with NotFound (404), DuplicateKey (400) or
\* Conflict (400) leaves all four collections exactly as they were before
\* the call.
C23_ErrorsChangeNothing ==
  [][ response'.status \in {400, 404} =>
        /\ districts' = districts
        /\ departments' = departments
        /\ employees' = employees
        /\ attendance_records' = attendance_records
    ]_vars

\* department 1 has been given the id 9, and the employee create for
\* department 1 that followed was refused with 404: the seven employees and
\* the three counts are those of the seed
C23_Witness ==
  /\ response = HTTPException("create_employee", 404)
  /\ steps = 2
  /\ departments[1].id = "9"
  /\ employees = sample_employees
  /\ departments[1].employeeCount = 3
  /\ attendance_records = sample_attendance

\* the departments before the create_employee that has just succeeded: that
\* call appended the last employee and added 1 to the employeeCount of the
\* first department with its departmentId
BeforeCreate(depts, department_id) ==
  LET i == IndexOf(depts, department_id) IN
  IF i = 0 THEN depts
  ELSE SetAt(depts, i,
             DictUpdate(depts[i], [employeeCount |-> depts[i].employeeCount - 1]))

\* C24: deleting the employee that the call before has created gives back
\* the employees and the departments, employeeCount included, of the state
\* before the create.
C24_CreateThenDelete ==
  [][ ( /\ response = Ok("create_employee")
        /\ response'.op = "delete_employee"
        /\ delete_employee(employees[Len(employees)].id) ) =>
          /\ response'.status = 200
          /\ employees' = SubSeq(employees, 1, Len(employees) - 1)
          /\ departments' =
               BeforeCreate(departments, employees[Len(employees)].departmentId)
    ]_vars

\* the number of stored employees whose departmentId is id
MemberCount(emps, id) ==
  Cardinality({ i \in 1..Len(emps) : emps[i].departmentId = id })

\* C21: once the process has stopped between the two saves of a
\* create_employee, the department that call was for has an employeeCount
\* one less than the number of employees that reference it while the process
\* is down, and neither the restart nor any later operation makes the two
\* equal again.
C21_CrashNeverRepaired ==
  process.torn # "none" =>
    \A i \in 1..Len(departments) :
       departments[i].id = process.torn =>
         /\ departments[i].employeeCount
              # MemberCount(employees, process.torn)
         /\ process.state = "stopped" =>
              departments[i].employeeCount
                = MemberCount(employees, process.torn) - 1

\* C21 as amended: the stop between the two saves leaves the new employee
\* stored and every department as it was, so the department the call was
\* for has one more employee referencing it and the same employeeCount; the
\* restart changes none of the four collections.
C21_CrashAndRestart ==
  [][ /\ (process.state = "running" /\ process'.state = "stopped") =>
           /\ UNCHANGED <<districts, departments, attendance_records>>
           /\ Len(employees') = Len(employees) + 1
           /\ SubSeq(employees', 1, Len(employees)) = employees
           /\ employees'[Len(employees')].departmentId = process'.torn
           /\ MemberCount(employees', process'.torn)
                = MemberCount(employees, process'.torn) + 1
      /\ (process.state = "stopped" /\ process'.state = "running") =>
           /\ UNCHANGED files
           /\ process'.torn = process.torn
    ]_vars

\* a department was created with no employees, the process stopped in the
\* create of its first employee and was started again, and the delete of
\* that employee has left the department with a count of 0 and no employee:
\* the two are equal again
C21_Witness ==
  /\ process = [state |-> "running", torn |-> generate_id(1)]
  /\ response = Ok("delete_employee")
  /\ nextId = 3
  /\ Len(departments) = 4
  /\ departments[4].id = generate_id(1)
  /\ departments[4].employeeCount = 0
  /\ MemberCount(employees, generate_id(1)) = 0
  /\ employees = sample_employees

====
